---- MODULE Spec2Model ----
(***************************************************************************)
(* Verification model of the steno keyboard driver, src/keys.py:           *)
(* the Keys object (scan, hysteresis, stroke accumulation, Gemini PR       *)
(* encoding, two-phase hardware calibration, factory reset).               *)
(*                                                                         *)
(* The program is single-threaded; every action below is one iteration of  *)
(* one of its loops (or one straight-line block between two samplings of   *)
(* the calibration button).  Hardware inputs (ADC values, the button, the  *)
(* millisecond clock) are chosen nondeterministically from small sets.     *)
(***************************************************************************)
EXTENDS Integers, Sequences, FiniteSets, TLC

VARIABLES
    pc,             \* position of the single control thread
    exc,            \* "none", or the exception that ended the program
    readings,       \* self.readings   : raw ADC value per address
    output,         \* self.output     : normalized 8-bit value per address
    prev_output,    \* self.prev_output
    pressed,        \* self.pressed    : bitmap (integer)
    prev_pressed,   \* self.prev_pressed
    stroke,         \* self.stroke
    zero,           \* self.zero       : calibration, resting value per address
    max,            \* self.max        : calibration, pressed value per address
    file,           \* hardware_calibration.json on the flash
    serial,         \* what the last step wrote to self.serial
    LED_cal,        \* self.LED_cal.value
    SW_cal,         \* last sampled self.SW_cal.value (TRUE = button released)
    elapsed,        \* calibrate(): elapsed(), as last evaluated
    vMin0,          \* calibrate(): local vMin0
    vMax0,          \* calibrate(): local vMax0
    vPressed,       \* calibrate(): local vPressed
    zero_l,         \* calibrate(): local zero
    ret,            \* value returned by the last read()
    acc,            \* history: union of the pressed bitmaps of all scans since pressed was last 0
    cal0,           \* history: self.zero, self.max and the file when calibrate() was entered
    ncal,           \* history: number of calls of calibrate()
    hist            \* history: the scans recorded since calibrate() was entered, or since startup (see Scan)

vars == <<pc, exc, readings, output, prev_output, pressed, prev_pressed, stroke,
          zero, max, file, serial, LED_cal, SW_cal, elapsed,
          vMin0, vMax0, vPressed, zero_l, ret, acc, cal0, ncal, hist>>

----------------------------------------------------------------------------
(* Bounds of the model *)

\* calibrate() is called at most this many times in one run
MaxCal == 1
\* resolution of the modelled millisecond clock
ClockStepMs == 1000
\* recorded runs: scans of the resting capture, of the pressed capture, of the main loop
MaxRestScans == 2
MaxPressScans == 2
MaxTrace == 4
\* function-level runs: keys in a stroke handed to write()
MaxKeys == 2
\* function-level runs: characters in a text handed to fingerSpell()
MaxText == 2

----------------------------------------------------------------------------
(* Program constants *)

NumAddr == 32
Addr == 0 .. (NumAddr - 1)

\* self.mask
mask == 230686687
\* the dwell time of phase 1
DwellMs == 2000
\* factory calibration
DefaultZero == 32913
DefaultMax == 51227
\* initial value of vMin0
AdcTop == 65535

thresh_h == [a \in Addr |-> 128]
thresh_l == [a \in Addr |-> 100]

key_names == <<"S1", "S2", "#", "T", "K", "-", "P", "W", "A", "H", "R", "O",
               "*1", "*2", "E", "F", "-R", "-U", "-P", "-B", "-L", "-G", "--",
               "-T", "-S", "#2", "-D", "-Z">>

protocol == << << 28,  2,  2,  2,  2,  2,  2 >>,
               <<  0,  1,  3,  4,  6,  7,  9 >>,
               << 10,  8, 11, 12, 13, 28, 28 >>,
               << 28, 12, 13, 14, 17, 15, 16 >>,
               << 18, 19, 20, 21, 23, 24, 26 >>,
               <<  2,  2,  2,  2,  2,  2, 27 >> >>

----------------------------------------------------------------------------
(* Integer and bitmap helpers *)

Abs(x) == IF x < 0 THEN -x ELSE x
Min2(x, y) == IF x < y THEN x ELSE y
Max2(x, y) == IF x > y THEN x ELSE y

\* 1 << a, for the shifts whose result fits the model checker's integers
Pow2 == [a \in 0 .. (NumAddr - 2) |-> 2 ^ a]

\* (n >> a) & 1, for 0 <= n < 2^31
Bit(n, a) == IF a > NumAddr - 2 THEN 0 ELSE (n \div Pow2[a]) % 2

RECURSIVE SumBits(_, _)
SumBits(f, a) ==
    IF a = NumAddr THEN 0
    ELSE (IF f[a] = 0 THEN 0 ELSE Pow2[a]) + SumBits(f, a + 1)

\* the integer whose bit a is f[a]
FromBits(f) == SumBits(f, 0)

\* x | y
BitOr(x, y) == FromBits([a \in Addr |-> Max2(Bit(x, a), Bit(y, a))])

\* Masked taken as true of every address that has a key name
MaskedIfNamed(a) == a < Len(key_names)

\* line 157: (self.mask >> addr) & 1
Masked(a) == Bit(mask, a) = 1

----------------------------------------------------------------------------
(* Hardware inputs *)

\* one key whose sensor moves on its own; all other keys move together
SoloKeys == {0}
RawSolo == {35000, 55000}
RawRest == {35000, 55000}

\* the values the four ADCs deliver during one scan, per address
Adc(x, y) == [a \in Addr |-> IF a \in SoloKeys THEN x ELSE y]
AdcInputs == {Adc(x, y) : x \in RawSolo, y \in RawRest}

\* inputs of the recorded calibrations: the solo key rests around 110 and is
\* pressed to either side or far away; the other keys stay at 110
RawCal == {100, 110, 120, 40000}
AdcCal == {Adc(x, 110) : x \in RawCal}

\* inputs of the recorded main-loop scans: under the factory calibration these
\* raw values normalize to 0, 90, 100, 120, 128 and 150
RawHyst == {32913, 39377, 40095, 41532, 42106, 43686}
AdcHyst == {Adc(x, 32913) : x \in RawHyst}

\* supervisor.ticks_ms() - t0 at its next evaluation, given its last value
Advance(e) == IF e >= DwellMs THEN {e} ELSE {e, e + ClockStepMs}

----------------------------------------------------------------------------
(* The persisted calibration record *)

Zeros == [a \in Addr |-> 0]

NoFile == [state |-> "absent", zero |-> Zeros, max |-> Zeros]
EmptyFile == [state |-> "empty", zero |-> Zeros, max |-> Zeros]
Record(z, m) == [state |-> "record", zero |-> z, max |-> m]

\* a record left by a calibration of an earlier run (keys resting at 35000, pressed to 55000)
OldRecord == Record([a \in Addr |-> IF Masked(a) THEN 35000 ELSE 0],
                    [a \in Addr |-> IF Masked(a) THEN 55000 ELSE 0])

InitFiles == {NoFile}

----------------------------------------------------------------------------
(* Serial output *)

Text(msg, names) == [kind |-> "text", text |-> msg, names |-> names, bytes |-> <<>>]
Chord(bytes) == [kind |-> "chord", text |-> "", names |-> <<>>, bytes |-> bytes]
\* one packet of fingerSpell(), sent byte for byte
Spelled(bytes) == [kind |-> "spelled", text |-> "", names |-> <<>>, bytes |-> bytes]

MsgStart == "Starting calibration.\\Please hold the calibration button until flashing stops.\\Please don't press any key during that time.\\\\"
MsgAbort == "Calibration aborted.\\\\"
MsgPress == "Please now press down each key all the way\\Press the calibration button again when you are done.\\\\"
MsgError == "Error: the following keys were not calibrated: {}\\\\"
MsgDone == "calibration recorded.\\Using the new values.\\\\"
MsgReset == "Calibration button held on startup.\\Reverting calibration to factory defaults.\\\\"

----------------------------------------------------------------------------
(* Keys.read *)

\* position of address a in the scan: mux i = a % 8 is the outer loop, ADC j = a \div 8 the inner one
ScanPos(a) == (a % 8) * 4 + (a \div 8)

\* line 161-162; defined when m # z
Normalize(val, z, m) == Min2(255, Max2(0, (Abs(val - z) * 255) \div Abs(m - z)))

\* Threshold without the dead band: one threshold decides both ways
ThresholdNoBand(val, was, th, tl) == IF val > th THEN 1 ELSE 0

\* lines 165-168: the new pressed bit of one address
Threshold(val, was, th, tl) ==
    IF val > th /\ was = 0 THEN 1
    ELSE IF val < tl /\ was = 1 THEN 0
    ELSE was

\* One call of read() with the ADCs delivering adc.  Line 161 raises
\* ZeroDivisionError at the first scanned address whose max equals its zero;
\* the addresses scanned before it have been updated by then.
read(adc) ==
    LET bad == {a \in Addr : Masked(a) /\ max[a] = zero[a]}
        stop == IF bad = {} THEN NumAddr
                ELSE ScanPos(CHOOSE a \in bad : \A b \in bad : ScanPos(a) <= ScanPos(b))
        sampled(a) == Masked(a) /\ ScanPos(a) <= stop
        done(a) == Masked(a) /\ ScanPos(a) < stop
        out == [a \in Addr |-> IF done(a) THEN Normalize(adc[a], zero[a], max[a])
                               ELSE prev_output[a]]
        bits == [a \in Addr |-> IF done(a)
                                THEN Threshold(out[a], Bit(pressed, a), thresh_h[a], thresh_l[a])
                                ELSE Bit(pressed, a)]
        new == FromBits(bits)
    IN  [readings |-> [a \in Addr |-> IF sampled(a) THEN adc[a] ELSE readings[a]],
         output |-> out,
         prev_output |-> output,
         pressed |-> new,
         prev_pressed |-> pressed,
         changed |-> Cardinality({a \in Addr : done(a) /\ out[a] # output[a]}),
         raised |-> bad # {},
         ret |-> new # pressed]

\* the effect of a call of read() on the object
DoRead(r) ==
    /\ readings' = r.readings
    /\ output' = r.output
    /\ prev_output' = r.prev_output
    /\ pressed' = r.pressed
    /\ prev_pressed' = r.prev_pressed
    /\ ret' = (~r.raised /\ r.ret)
    /\ acc' = IF r.pressed = 0 THEN 0 ELSE BitOr(acc, r.pressed)
    /\ exc' = IF r.raised THEN "ZeroDivisionError" ELSE exc

----------------------------------------------------------------------------
(* Keys.write *)

\* ByteOf with table position i on data bit i instead of 6 - i
RECURSIVE ByteOfLsbFirst(_, _, _)
ByteOfLsbFirst(s, c, i) ==
    IF i = 7 THEN 0
    ELSE Bit(s, protocol[c + 1][i + 1]) * Pow2[i] + ByteOfLsbFirst(s, c, i + 1)

\* lines 175-177: gemini_buffer[c] after the inner loop has run from position i
RECURSIVE ByteOf(_, _, _)
ByteOf(s, c, i) ==
    IF i = 7 THEN 0
    ELSE Bit(s, protocol[c + 1][i + 1]) * Pow2[6 - i] + ByteOf(s, c, i + 1)

\* the 6 bytes write() sends for stroke s
Encode(s) == [c \in 1 .. 6 |-> IF c = 1 THEN ByteOf(s, 0, 0) + 128 ELSE ByteOf(s, c - 1, 0)]

----------------------------------------------------------------------------
(* Keys.fingerSpell *)

\* line 37-42
finger_spelling ==
    ("a" :> <<"A", "*">>) @@
    ("b" :> <<"P", "W", "*">>) @@
    ("c" :> <<"K", "R", "*">>) @@
    ("d" :> <<"T", "K", "*">>) @@
    ("e" :> <<"E", "*">>) @@
    ("f" :> <<"T", "P", "*">>) @@
    ("g" :> <<"T", "P", "K", "W", "*">>) @@
    ("h" :> <<"H", "*">>) @@
    ("i" :> <<"E", "U", "*">>) @@
    ("j" :> <<"S", "K", "W", "R", "*">>) @@
    ("k" :> <<"K", "*">>) @@
    ("l" :> <<"H", "R", "*">>) @@
    ("m" :> <<"P", "H", "*">>) @@
    ("n" :> <<"T", "P", "H", "*">>) @@
    ("o" :> <<"O", "*">>) @@
    ("p" :> <<"P", "*">>) @@
    ("q" :> <<"K", "W", "*">>) @@
    ("r" :> <<"R", "*">>) @@
    ("s" :> <<"S", "*">>) @@
    ("t" :> <<"T", "*">>) @@
    ("u" :> <<"U", "*">>) @@
    ("v" :> <<"S", "R", "*">>) @@
    ("w" :> <<"W", "*">>) @@
    ("x" :> <<"K", "P", "*">>) @@
    ("y" :> <<"K", "W", "R", "*">>) @@
    ("Z" :> <<"S", "T", "P", "K", "W", "*">>) @@
    (":" :> <<"K", "H", "R", "-P", "-B">>) @@
    ("." :> <<"P", "-P">>) @@
    (" " :> <<"S", "-P">>) @@
    ("\\" :> <<"R", "-R">>) @@
    ("'" :> <<"S", "K", "W", "*", "-T">>) @@
    ("1" :> <<"#", "S">>) @@
    ("2" :> <<"#", "T">>) @@
    ("," :> <<"W", "-B">>) @@
    ("#" :> <<"#">>) @@
    ("-" :> <<"H", "-B">>) @@
    ("*" :> <<"*">>) @@
    ("_" :> <<"R", "U", "-P", "-B", "-D">>)

\* lines 43-47; a 48-bit code is kept as the 6 bytes lines 134-135 split it
\* into, gemini_buffer[0] (bits 47..40) first
gemini_codes ==
    ("S" :> <<0, 96, 0, 0, 0, 0>>) @@
    ("T" :> <<0, 16, 0, 0, 0, 0>>) @@
    ("K" :> <<0, 8, 0, 0, 0, 0>>) @@
    ("P" :> <<0, 4, 0, 0, 0, 0>>) @@
    ("W" :> <<0, 2, 0, 0, 0, 0>>) @@
    ("H" :> <<0, 1, 0, 0, 0, 0>>) @@
    ("R" :> <<0, 0, 64, 0, 0, 0>>) @@
    ("A" :> <<0, 0, 32, 0, 0, 0>>) @@
    ("O" :> <<0, 0, 16, 0, 0, 0>>) @@
    ("#" :> <<63, 0, 0, 0, 0, 126>>) @@
    ("*" :> <<0, 0, 12, 48, 0, 0>>) @@
    ("E" :> <<0, 0, 0, 8, 0, 0>>) @@
    ("U" :> <<0, 0, 0, 4, 0, 0>>) @@
    ("-P" :> <<0, 0, 0, 0, 64, 0>>) @@
    ("-L" :> <<0, 0, 0, 0, 16, 0>>) @@
    ("-B" :> <<0, 0, 0, 0, 32, 0>>) @@
    ("-S" :> <<0, 0, 0, 0, 2, 0>>) @@
    ("-D" :> <<0, 0, 0, 0, 1, 0>>) @@
    ("-T" :> <<0, 0, 0, 0, 4, 0>>) @@
    ("-R" :> <<0, 0, 0, 1, 0, 0>>)

\* line 126: 0x800000000000
StartCode == <<128, 0, 0, 0, 0, 0>>

UpperCase == <<"A", "B", "C", "D", "E", "F", "G", "H", "I", "J", "K", "L", "M",
               "N", "O", "P", "Q", "R", "S", "T", "U", "V", "W", "X", "Y", "Z">>
LowerCase == <<"a", "b", "c", "d", "e", "f", "g", "h", "i", "j", "k", "l", "m",
               "n", "o", "p", "q", "r", "s", "t", "u", "v", "w", "x", "y", "z">>

\* letter.isupper() and letter.lower()
IsUpper(letter) == \E k \in 1 .. Len(UpperCase) : UpperCase[k] = letter
Lower(letter) == LowerCase[CHOOSE k \in 1 .. Len(UpperCase) : UpperCase[k] = letter]

\* x | y on bytes, from bit k upwards
RECURSIVE OrBits(_, _, _)
OrBits(x, y, k) ==
    IF k = 8 THEN 0
    ELSE Max2(Bit(x, k), Bit(y, k)) * Pow2[k] + OrBits(x, y, k + 1)

\* code | other
CodeOr(code, other) == [c \in 1 .. 6 |-> OrBits(code[c], other[c], 0)]

\* lines 132-133, from the k-th key of the list
RECURSIVE OrKeys(_, _, _)
OrKeys(code, keys, k) ==
    IF k > Len(keys) THEN code
    ELSE OrKeys(CodeOr(code, gemini_codes[keys[k]]), keys, k + 1)

\* SpellPacket with the code started at 0: the packet-start bit is forgotten
SpellPacketNoStart(letter) ==
    LET up == IsUpper(letter)
        code == IF up THEN gemini_codes["-P"] ELSE [c \in 1 .. 6 |-> 0]
        low == IF up THEN Lower(letter) ELSE letter
        known == IF low \in DOMAIN finger_spelling THEN low ELSE "*"
    IN  OrKeys(code, finger_spelling[known], 1)

\* lines 126-135: the 6 bytes sent for one character
SpellPacket(letter) ==
    LET up == IsUpper(letter)
        code == IF up THEN CodeOr(StartCode, gemini_codes["-P"]) ELSE StartCode
        low == IF up THEN Lower(letter) ELSE letter
        known == IF low \in DOMAIN finger_spelling THEN low ELSE "*"
    IN  OrKeys(code, finger_spelling[known], 1)

\* lines 125-136: what one call of fingerSpell(text) writes to self.serial
fingerSpell(text) == [k \in 1 .. Len(text) |-> Spelled(SpellPacket(text[k]))]

----------------------------------------------------------------------------
(* Construction: Keys.__init__ *)

\* lines 107-113: the calibration loaded from f, or the factory values
LoadedZero(f) == IF f.state = "record" THEN f.zero ELSE [a \in Addr |-> DefaultZero]
LoadedMax(f) == IF f.state = "record" THEN f.max ELSE [a \in Addr |-> DefaultMax]

\* the locals of calibrate() outside of a call
NoLocals ==
    /\ vMin0' = Zeros
    /\ vMax0' = Zeros
    /\ vPressed' = Zeros
    /\ zero_l' = Zeros
    /\ elapsed' = 0

KeepLocals == UNCHANGED <<vMin0, vMax0, vPressed, zero_l, elapsed>>

KeepScan == UNCHANGED <<readings, output, prev_output, pressed, prev_pressed, ret, acc, exc>>

Init ==
    /\ pc = "start"
    /\ exc = "none"
    /\ readings = Zeros
    /\ output = Zeros
    /\ prev_output = Zeros
    /\ pressed = 0
    /\ prev_pressed = 0
    /\ stroke = 0
    /\ file \in InitFiles
    /\ zero = LoadedZero(file)
    /\ max = LoadedMax(file)
    /\ serial = <<>>
    /\ LED_cal = 0
    /\ SW_cal = TRUE
    /\ elapsed = 0
    /\ vMin0 = Zeros
    /\ vMax0 = Zeros
    /\ vPressed = Zeros
    /\ zero_l = Zeros
    /\ ret = FALSE
    /\ acc = 0
    /\ cal0 = [zero |-> zero, max |-> max, file |-> file]
    /\ ncal = 0
    /\ hist = <<>>

----------------------------------------------------------------------------
(* Keys.loop *)

\* lines 242, 254: the button is not held at startup
StartLoop ==
    /\ pc = "start"
    /\ SW_cal' = TRUE
    /\ pc' = "loop"
    /\ serial' = <<>>
    /\ UNCHANGED <<stroke, zero, max, file, LED_cal, cal0, ncal, hist>>
    /\ KeepScan
    /\ KeepLocals

\* FactoryReset without line 249: the file is removed, the object is not rebuilt
FactoryResetNoInit ==
    /\ pc = "start"
    /\ SW_cal' = FALSE
    /\ serial' = <<Text(MsgReset, <<>>)>>
    /\ file' = NoFile
    /\ pc' = "reset_wait"
    /\ UNCHANGED <<zero, max, stroke, LED_cal, cal0, ncal, hist>>
    /\ KeepScan
    /\ KeepLocals

\* lines 242-249: the button is held at startup; the file is removed and the object rebuilt
FactoryReset ==
    /\ pc = "start"
    /\ SW_cal' = FALSE
    /\ serial' = <<Text(MsgReset, <<>>)>>
    /\ file' = NoFile
    /\ zero' = LoadedZero(NoFile)
    /\ max' = LoadedMax(NoFile)
    /\ readings' = Zeros
    /\ output' = Zeros
    /\ prev_output' = Zeros
    /\ pressed' = 0
    /\ prev_pressed' = 0
    /\ stroke' = 0
    /\ acc' = 0
    /\ pc' = "reset_wait"
    /\ UNCHANGED <<exc, ret, LED_cal, cal0, ncal, hist>>
    /\ KeepLocals

\* lines 251-252
ResetWait ==
    /\ pc = "reset_wait"
    /\ \E b \in BOOLEAN :
        /\ SW_cal' = b
        /\ pc' = IF b THEN "loop" ELSE "reset_wait"
    /\ serial' = <<>>
    /\ UNCHANGED <<stroke, zero, max, file, LED_cal, cal0, ncal, hist>>
    /\ KeepScan
    /\ KeepLocals

\* Update without the test of line 256: the stroke is updated after every scan
UpdateUnconditional(r) ==
    IF r.pressed = 0
    THEN /\ serial' = <<Chord(Encode(stroke))>>
         /\ stroke' = 0
    ELSE /\ serial' = <<>>
         /\ stroke' = BitOr(stroke, r.pressed)

\* lines 256-263: what the loop does with the stroke after read() returned r
Update(r) ==
    IF r.ret
    THEN IF r.pressed = 0
         THEN /\ serial' = <<Chord(Encode(stroke))>>
              /\ stroke' = 0
         ELSE /\ serial' = <<>>
              /\ stroke' = BitOr(stroke, r.pressed)
    ELSE /\ serial' = <<>>
         /\ stroke' = stroke

\* lines 254-267: one iteration of the main loop, the ADCs delivering a vector of In
LoopIterOn(In) ==
    /\ pc = "loop"
    /\ \E adc \in In, b \in BOOLEAN :
        \E r \in {read(adc)} :
        /\ DoRead(r)
        /\ IF r.raised
           THEN /\ pc' = "crashed"
                /\ UNCHANGED <<serial, stroke, SW_cal>>
           ELSE /\ Update(r)
                /\ (~b => ncal < MaxCal)
                /\ SW_cal' = b
                /\ pc' = IF b THEN "loop" ELSE "calibrate"
    /\ UNCHANGED <<zero, max, file, LED_cal, cal0, ncal>>
    /\ KeepLocals

----------------------------------------------------------------------------
(* Keys.calibrate *)

\* lines 187-192
CalStart ==
    /\ pc = "calibrate"
    /\ elapsed' \in Advance(0)
    /\ vMin0' = [a \in Addr |-> AdcTop]
    /\ vMax0' = Zeros
    /\ serial' = <<Text(MsgStart, <<>>)>>
    /\ cal0' = [zero |-> zero, max |-> max, file |-> file]
    /\ ncal' = ncal + 1
    /\ hist' = <<>>
    /\ pc' = "cal_rest"
    /\ UNCHANGED <<stroke, zero, max, file, LED_cal, SW_cal, vPressed, zero_l>>
    /\ KeepScan

\* lines 193-198: one iteration of the phase 1 loop (button held)
CalRestScanOn(In) ==
    /\ pc = "cal_rest"
    /\ SW_cal' = FALSE
    /\ \E adc \in In, e \in Advance(elapsed), flash \in {0, 1} :
        \E r \in {read(adc)} :
        /\ elapsed' = e
        /\ LED_cal' = IF e < DwellMs THEN flash ELSE 0
        /\ DoRead(r)
        /\ IF r.raised
           THEN /\ pc' = "crashed"
                /\ UNCHANGED <<vMin0, vMax0>>
           ELSE /\ pc' = "cal_rest"
                /\ vMin0' = [a \in Addr |-> Min2(vMin0[a], r.readings[a])]
                /\ vMax0' = [a \in Addr |-> Max2(vMax0[a], r.readings[a])]
    /\ serial' = <<>>
    /\ UNCHANGED <<stroke, zero, max, file, vPressed, zero_l, cal0, ncal>>

\* lines 193, 199: the button is found released; elapsed() is evaluated
CalRestExit ==
    /\ pc = "cal_rest"
    /\ SW_cal' = TRUE
    /\ elapsed' \in Advance(elapsed)
    /\ pc' = "cal_check"
    /\ serial' = <<>>
    /\ UNCHANGED <<stroke, zero, max, file, LED_cal, vMin0, vMax0, vPressed, zero_l,
                   cal0, ncal, hist>>
    /\ KeepScan

\* CalAbort without line 200: the indicator is left as the last flash set it
CalAbortLedKept ==
    /\ pc = "cal_check"
    /\ elapsed < DwellMs
    /\ serial' = <<Text(MsgAbort, <<>>)>>
    /\ pc' = "loop"
    /\ NoLocals
    /\ hist' = <<>>
    /\ UNCHANGED <<stroke, zero, max, file, SW_cal, cal0, ncal, LED_cal>>
    /\ KeepScan

\* lines 199-202: the dwell time has not elapsed
CalAbort ==
    /\ pc = "cal_check"
    /\ elapsed < DwellMs
    /\ LED_cal' = 0
    /\ serial' = <<Text(MsgAbort, <<>>)>>
    /\ pc' = "loop"
    /\ NoLocals
    /\ hist' = <<>>
    /\ UNCHANGED <<stroke, zero, max, file, SW_cal, cal0, ncal>>
    /\ KeepScan

\* lines 199, 205-206: the dwell time has elapsed
CalRestDone ==
    /\ pc = "cal_check"
    /\ ~(elapsed < DwellMs)
    /\ vPressed' = vMin0
    /\ serial' = <<Text(MsgPress, <<>>)>>
    /\ pc' = "cal_press"
    /\ UNCHANGED <<stroke, zero, max, file, LED_cal, SW_cal, elapsed, vMin0, vMax0,
                   zero_l, cal0, ncal, hist>>
    /\ KeepScan

\* Farther with >= for >: on a tie the later reading is kept
FartherOrEqual(reading, kept, ref) ==
    IF Abs(reading - ref) >= Abs(kept - ref) THEN reading ELSE kept

\* line 211: the value kept for one address
Farther(reading, kept, ref) ==
    IF Abs(reading - ref) > Abs(kept - ref) THEN reading ELSE kept

\* lines 207-211: one iteration of the phase 2 loop (button not held)
CalPressScanOn(In) ==
    /\ pc = "cal_press"
    /\ SW_cal' = TRUE
    /\ \E adc \in In, flash \in {0, 1} :
        \E r \in {read(adc)} :
        /\ LED_cal' = flash
        /\ DoRead(r)
        /\ IF r.raised
           THEN /\ pc' = "crashed"
                /\ UNCHANGED vPressed
           ELSE /\ pc' = "cal_press"
                /\ vPressed' = [a \in Addr |-> Farther(r.readings[a], vPressed[a], vMin0[a])]
    /\ serial' = <<>>
    /\ UNCHANGED <<stroke, zero, max, file, elapsed, vMin0, vMax0, zero_l, cal0, ncal>>

\* line 213
SelectZero(vp, lo, hi) == [a \in Addr |-> IF vp[a] < lo[a] THEN lo[a] ELSE hi[a]]

\* lines 218-221: the addresses whose names go to err
Uncalibrated(vp, z) == {a \in Addr : Masked(a) /\ Abs(vp[a] - z[a]) < 0}

\* the names of a set of addresses, in increasing order of address
RECURSIVE NamesFrom(_, _)
NamesFrom(S, a) ==
    IF a = NumAddr THEN <<>>
    ELSE (IF a \in S THEN <<key_names[a + 1]>> ELSE <<>>) \o NamesFrom(S, a + 1)

\* CalValidate entered when the button is found released (the condition of
\* line 207 inverted)
CalValidateOnRelease ==
    /\ pc = "cal_press"
    /\ SW_cal' = TRUE
    /\ \E z \in {SelectZero(vPressed, vMin0, vMax0)} :
       \E err \in {Uncalibrated(vPressed, z)} :
           /\ LED_cal' = 1
           /\ IF err # {}
              THEN /\ serial' = <<Text(MsgError, NamesFrom(err, 0))>>
                   /\ pc' = "loop"
                   /\ NoLocals
                   /\ hist' = <<>>
              ELSE /\ serial' = <<>>
                   /\ pc' = "cal_apply"
                   /\ zero_l' = z
                   /\ UNCHANGED <<vMin0, vMax0, vPressed, elapsed, hist>>
    /\ UNCHANGED <<stroke, zero, max, file, cal0, ncal>>
    /\ KeepScan

\* lines 207, 213-224: the button is pressed again; the capture is validated
CalValidate ==
    /\ pc = "cal_press"
    /\ SW_cal' = FALSE
    /\ \E z \in {SelectZero(vPressed, vMin0, vMax0)} :
       \E err \in {Uncalibrated(vPressed, z)} :
           /\ LED_cal' = 1
           /\ IF err # {}
              THEN /\ serial' = <<Text(MsgError, NamesFrom(err, 0))>>
                   /\ pc' = "loop"
                   /\ NoLocals
                   /\ hist' = <<>>
              ELSE /\ serial' = <<>>
                   /\ pc' = "cal_apply"
                   /\ zero_l' = z
                   /\ UNCHANGED <<vMin0, vMax0, vPressed, elapsed, hist>>
    /\ UNCHANGED <<stroke, zero, max, file, cal0, ncal>>
    /\ KeepScan

\* lines 227-228
CalApply ==
    /\ pc = "cal_apply"
    /\ max' = vPressed
    /\ zero' = zero_l
    /\ pc' = "cal_open"
    /\ serial' = <<>>
    /\ UNCHANGED <<stroke, file, LED_cal, SW_cal, cal0, ncal, hist>>
    /\ KeepScan
    /\ KeepLocals

\* line 229: opening for writing truncates the file
CalOpen ==
    /\ pc = "cal_open"
    /\ file' = EmptyFile
    /\ pc' = "cal_dump"
    /\ serial' = <<>>
    /\ UNCHANGED <<stroke, zero, max, LED_cal, SW_cal, cal0, ncal, hist>>
    /\ KeepScan
    /\ KeepLocals

\* lines 230-234
CalDump ==
    /\ pc = "cal_dump"
    /\ file' = Record(zero, max)
    /\ LED_cal' = 0
    /\ serial' = <<Text(MsgDone, <<>>)>>
    /\ pc' = "cal_wait"
    /\ UNCHANGED <<stroke, zero, max, SW_cal, cal0, ncal, hist>>
    /\ KeepScan
    /\ KeepLocals

\* CalWait without the loop of lines 235-237: calibrate() returns at once
CalWaitSkipped ==
    /\ pc = "cal_wait"
    /\ pc' = "loop"
    /\ NoLocals
    /\ hist' = <<>>
    /\ serial' = <<>>
    /\ UNCHANGED <<stroke, zero, max, file, LED_cal, SW_cal, cal0, ncal>>
    /\ KeepScan

\* lines 235-238
CalWait ==
    /\ pc = "cal_wait"
    /\ \E b \in BOOLEAN :
        /\ SW_cal' = b
        /\ IF b
           THEN pc' = "loop" /\ NoLocals /\ hist' = <<>>
           ELSE pc' = "cal_wait" /\ KeepLocals /\ UNCHANGED hist
    /\ serial' = <<>>
    /\ UNCHANGED <<stroke, zero, max, file, LED_cal, cal0, ncal>>
    /\ KeepScan

----------------------------------------------------------------------------
(* The program on a keyboard whose keys take the values of AdcInputs *)

LoopIter == LoopIterOn(AdcInputs) /\ UNCHANGED hist
CalRestScan == CalRestScanOn(AdcInputs) /\ UNCHANGED hist
CalPressScan == CalPressScanOn(AdcInputs) /\ UNCHANGED hist

Next ==
    \/ StartLoop
    \/ FactoryReset
    \/ ResetWait
    \/ LoopIter
    \/ CalStart
    \/ CalRestScan
    \/ CalRestExit
    \/ CalAbort
    \/ CalRestDone
    \/ CalPressScan
    \/ CalValidate
    \/ CalApply
    \/ CalOpen
    \/ CalDump
    \/ CalWait

Spec == Init /\ [][Next]_vars

----------------------------------------------------------------------------
(* Recorded runs: every scan of a capture phase, or of the main loop, is     *)
(* appended to hist                                                          *)

\* the record of the scan just made
Scan(phase) == [phase |-> phase, readings |-> readings', output |-> output',
                pressed |-> pressed']

Record1(phase) ==
    hist' = IF pc' = "crashed" THEN hist ELSE Append(hist, Scan(phase))

Count(phase) == Cardinality({i \in 1 .. Len(hist) : hist[i].phase = phase})

\* outside of calibrate() every key stays at its resting value
LoopIterCal == LoopIterOn({Adc(110, 110)}) /\ UNCHANGED hist

CalRestScanRec ==
    /\ Count("rest") < MaxRestScans
    /\ CalRestScanOn(AdcCal)
    /\ Record1("rest")

CalPressScanRec ==
    /\ Count("press") < MaxPressScans
    /\ CalPressScanOn(AdcCal)
    /\ Record1("press")

NextCal ==
    \/ StartLoop
    \/ FactoryReset
    \/ ResetWait
    \/ LoopIterCal
    \/ CalStart
    \/ CalRestScanRec
    \/ CalRestExit
    \/ CalAbort
    \/ CalRestDone
    \/ CalPressScanRec
    \/ CalValidate
    \/ CalApply
    \/ CalOpen
    \/ CalDump
    \/ CalWait

\* calibrations with every capture scan recorded
SpecCal == Init /\ [][NextCal]_vars

\* a main-loop scan, recorded; the calibration button is not touched
LoopIterRec ==
    /\ Len(hist) < MaxTrace
    /\ LoopIterOn(AdcHyst)
    /\ SW_cal' = TRUE
    /\ Record1("loop")

NextHyst ==
    \/ StartLoop
    \/ LoopIterRec

\* main-loop scans under the startup calibration, recorded
SpecHyst == Init /\ [][NextHyst]_vars

----------------------------------------------------------------------------
(* The scan order: main-loop scans whose inputs are given per multiplexer    *)
(* channel and analog input, recorded                                        *)

\* range(8) of line 153 and the indices of self.ADC
Mux == 0 .. 7
Inputs == 0 .. 3

\* AddrOf with 4 addresses per analog input
AddrPlus4(i, j) == i + j * 4

\* line 156
AddrOf(i, j) == i + j * 8

\* the place of a (channel, input) pair in the order of lines 153, 155
Order(p) == p[1] * 4 + p[2]

\* what ADC j delivers while channel i is selected: all 32 values differ
Pattern(b, d) == [i \in Mux |-> [j \in Inputs |-> b + d * (4 * i + j)]]
RawBase == {33000, 45000}
RawStride == {1, 100}
HwInputs == {Pattern(b, d) : b \in RawBase, d \in RawStride}

\* lines 153-159: the value a scan assigns last to each address, the ADCs
\* delivering hw (the value it holds, for an address no pair is stored at)
AdcOf(hw) ==
    [a \in Addr |->
        LET P == {p \in Mux \X Inputs : AddrOf(p[1], p[2]) = a}
        IN  IF P = {} THEN readings[a]
            ELSE LET last == CHOOSE p \in P : \A q \in P : Order(q) <= Order(p)
                 IN  hw[last[1]][last[2]]]

\* a main-loop scan, its hardware input recorded; the calibration button is
\* not touched
LoopIterHw ==
    /\ Len(hist) < MaxTrace
    /\ \E hw \in HwInputs :
        /\ LoopIterOn({AdcOf(hw)})
        /\ hist' = Append(hist, [phase |-> "scan", hw |-> hw])
    /\ SW_cal' = TRUE

NextScan ==
    \/ StartLoop
    \/ LoopIterHw

SpecScan == Init /\ [][NextScan]_vars

----------------------------------------------------------------------------
(* The life of the calibration record: the program started with or without   *)
(* a record on the flash, all keys moving together                           *)

BootFiles == {NoFile, OldRecord}

AdcBoot == {Adc(x, x) : x \in RawRest}

\* the object as constructed by line 334
InitBoot ==
    /\ pc = "start"
    /\ exc = "none"
    /\ readings = Zeros
    /\ output = Zeros
    /\ prev_output = Zeros
    /\ pressed = 0
    /\ prev_pressed = 0
    /\ stroke = 0
    /\ file \in BootFiles
    /\ zero = LoadedZero(file)
    /\ max = LoadedMax(file)
    /\ serial = <<>>
    /\ LED_cal = 0
    /\ SW_cal = TRUE
    /\ elapsed = 0
    /\ vMin0 = Zeros
    /\ vMax0 = Zeros
    /\ vPressed = Zeros
    /\ zero_l = Zeros
    /\ ret = FALSE
    /\ acc = 0
    /\ cal0 = [zero |-> zero, max |-> max, file |-> file]
    /\ ncal = 0
    /\ hist = <<>>

LoopIterBoot == LoopIterOn(AdcBoot) /\ UNCHANGED hist
CalRestScanBoot == CalRestScanOn(AdcBoot) /\ UNCHANGED hist
CalPressScanBoot == CalPressScanOn(AdcBoot) /\ UNCHANGED hist

NextBoot ==
    \/ StartLoop
    \/ FactoryReset
    \/ ResetWait
    \/ LoopIterBoot
    \/ CalStart
    \/ CalRestScanBoot
    \/ CalRestExit
    \/ CalAbort
    \/ CalRestDone
    \/ CalPressScanBoot
    \/ CalValidate
    \/ CalApply
    \/ CalOpen
    \/ CalDump
    \/ CalWait

SpecBoot == InitBoot /\ [][NextBoot]_vars

----------------------------------------------------------------------------
(* The wire format: write() applied to the strokes of up to MaxKeys keys,    *)
(* fingerSpell() applied to texts of up to MaxText characters                *)

RECURSIVE KeySetsUpTo(_)
KeySetsUpTo(n) ==
    IF n = 0 THEN {{}}
    ELSE LET P == KeySetsUpTo(n - 1)
         IN  P \cup {K \cup {a} : K \in P, a \in {b \in Addr : Masked(b)}}

\* the bitmap of a set of addresses
BitmapOf(K) == FromBits([a \in Addr |-> IF a \in K THEN 1 ELSE 0])

\* the values self.stroke can have when write() is called
Strokes == {BitmapOf(K) : K \in KeySetsUpTo(MaxKeys)}

\* every character with an entry of its own, every uppercase letter, and
\* characters without an entry
Chars == DOMAIN finger_spelling \cup {UpperCase[k] : k \in 1 .. Len(UpperCase)}
            \cup {"z", "?", "3"}

\* the characters of the longer texts
SomeChars == {"a", "A", "Z", "#", "?"}

RECURSIVE TextsUpTo(_)
TextsUpTo(n) ==
    IF n = 0 THEN {<<>>}
    ELSE LET T == TextsUpTo(n - 1)
         IN  T \cup {Append(t, ch) : t \in T, ch \in SomeChars}

\* the arguments of fingerSpell()
Texts == TextsUpTo(MaxText) \cup {<<ch>> : ch \in Chars}

\* the object as constructed, with a stroke accumulated and write() about to
\* be called, or with fingerSpell() about to be called
InitWire ==
    /\ \/ pc = "write" /\ stroke \in Strokes
       \/ pc = "spell" /\ stroke = 0
    /\ exc = "none"
    /\ readings = Zeros
    /\ output = Zeros
    /\ prev_output = Zeros
    /\ pressed = 0
    /\ prev_pressed = 0
    /\ file = NoFile
    /\ zero = LoadedZero(file)
    /\ max = LoadedMax(file)
    /\ serial = <<>>
    /\ LED_cal = 0
    /\ SW_cal = TRUE
    /\ elapsed = 0
    /\ vMin0 = Zeros
    /\ vMax0 = Zeros
    /\ vPressed = Zeros
    /\ zero_l = Zeros
    /\ ret = FALSE
    /\ acc = 0
    /\ cal0 = [zero |-> zero, max |-> max, file |-> file]
    /\ ncal = 0
    /\ hist = <<>>

\* lines 171-181: one call of write()
WriteStroke ==
    /\ pc = "write"
    /\ serial' = <<Chord(Encode(stroke))>>
    /\ pc' = "written"
    /\ UNCHANGED <<stroke, zero, max, file, LED_cal, SW_cal, cal0, ncal, hist>>
    /\ KeepScan
    /\ KeepLocals

\* lines 123-136: one call of fingerSpell(), its argument recorded
Spell ==
    /\ pc = "spell"
    /\ \E text \in Texts :
        /\ serial' = fingerSpell(text)
        /\ hist' = <<[phase |-> "spell", text |-> text]>>
    /\ pc' = "spelled"
    /\ UNCHANGED <<stroke, zero, max, file, LED_cal, SW_cal, cal0, ncal>>
    /\ KeepScan
    /\ KeepLocals

NextWire ==
    \/ WriteStroke
    \/ Spell

SpecWire == InitWire /\ [][NextWire]_vars

----------------------------------------------------------------------------
(* Claims *)

MaskedAddr == {a \in Addr : Masked(a)}

\* the control positions inside calibrate()
CalPcs == {"calibrate", "cal_rest", "cal_check", "cal_press", "cal_apply", "cal_open",
           "cal_dump", "cal_wait"}

ChordsOf(out) == {i \in 1 .. Len(out) : out[i].kind = "chord"}

\* C1 (as claimed): every chord packet encodes the union of the pressed bitmaps
\* of all scans made since pressed was last empty, the scans of calibrate()
\* included.
C1_ChordIsUnionOfAllScans ==
    [][\A i \in ChordsOf(serial') : serial'[i].bytes = Encode(acc)]_vars

\* C2 (as claimed): whenever a scan, in the main loop or in calibrate(), takes
\* pressed from non-empty to empty, exactly one chord packet carrying the
\* stroke is sent and the stroke is reset; the stroke is reset at no other
\* moment.
C2_EveryReleaseEmitsOnce ==
    [][/\ (pressed # 0 /\ pressed' = 0 /\ pc' # "crashed")
            => (serial' = <<Chord(Encode(stroke))>> /\ stroke' = 0)
       /\ (stroke # 0 /\ stroke' = 0)
            => (pressed # 0 /\ pressed' = 0 /\ serial' = <<Chord(Encode(stroke))>>)]_vars

\* C4 (as claimed): read() never divides by zero; with max[addr] = zero[addr]
\* for a masked address the scan still completes.
C4_ReadNeverDividesByZero == exc # "ZeroDivisionError"

\* C5 (as claimed): in every reachable state max[addr] # zero[addr] for every
\* masked address.
C5_RangeNeverZero == \A a \in MaskedAddr : max[a] # zero[a]

\* C6 (as claimed): when the pressed capture ends with a masked address whose
\* deflection |vPressed - zero| is zero, the calibration is discarded: the
\* failing keys are reported by name, and self.zero, self.max and the file
\* keep their values.
C6_NoDeflectionDiscards ==
    [][\A z \in {SelectZero(vPressed, vMin0, vMax0)} :
        \A bad \in {{a \in MaskedAddr : vPressed[a] = z[a]}} :
          (pc = "cal_press" /\ SW_cal' = FALSE /\ bad # {})
            => /\ serial' = <<Text(MsgError, NamesFrom(bad, 0))>>
               /\ pc' = "loop"
               /\ UNCHANGED <<zero, max, file>>]_vars

\* C7: when the button has been found released in phase 1 and elapsed() is
\* below 2000, calibrate() returns to the main loop at once (no pressed
\* capture), having sent the abort message and switched the indicator off,
\* and self.zero, self.max and the file are what they were when calibrate()
\* was entered.
C7_AbortChangesNothing ==
    [][(pc = "cal_check" /\ SW_cal = TRUE /\ elapsed < DwellMs)
         => /\ pc' = "loop"
            /\ serial' = <<Text(MsgAbort, <<>>)>>
            /\ LED_cal' = 0
            /\ zero' = cal0.zero /\ max' = cal0.max /\ file' = cal0.file
            /\ cal0' = cal0]_vars

\* C7, witness: an abort has just happened
C7_Aborted ==
    /\ pc = "loop"
    /\ serial = <<Text(MsgAbort, <<>>)>>
    /\ ncal > 0
    /\ LED_cal = 0

\* C8 (as claimed): the pressed capture is entered as soon as the dwell time
\* is satisfied, and a release of the button ends it.
C8_ReleaseEndsPressedCapture ==
    [][/\ (pc = "cal_rest" /\ ~(elapsed' < DwellMs)) => pc' \in {"cal_check", "crashed"}
       /\ (pc = "cal_press" /\ pc' \in {"cal_apply", "loop"}) => SW_cal' = TRUE]_vars

\* C8 (amended): the pressed capture is entered when the button is found
\* released with the dwell time satisfied (while it stays held the resting
\* capture goes on), and it is a press of the button that ends the pressed
\* capture and starts validate-and-commit; while the button stays released
\* the pressed capture goes on.
C8_PressEndsPressedCapture ==
    [][/\ (pc = "cal_rest" /\ SW_cal' = FALSE) => pc' \in {"cal_rest", "crashed"}
       /\ (pc = "cal_rest" /\ SW_cal' = TRUE) => pc' = "cal_check"
       /\ pc = "cal_check" => (SW_cal = TRUE /\ pc' = IF elapsed < DwellMs THEN "loop" ELSE "cal_press")
       /\ pc' = "cal_press" => pc \in {"cal_check", "cal_press"}
       /\ (pc = "cal_press" /\ SW_cal' = TRUE) => pc' \in {"cal_press", "crashed"}
       /\ (pc = "cal_press" /\ SW_cal' = FALSE) => pc' \in {"cal_apply", "loop"}
       /\ (pc = "cal_press" /\ pc' \in {"cal_apply", "loop"}) => SW_cal' = FALSE]_vars

\* C8, witness: a pressed capture that recorded a deflection has been ended by
\* a press of the button
C8_EndedByPress ==
    /\ pc = "cal_apply"
    /\ SW_cal = FALSE
    /\ \E a \in MaskedAddr : vPressed[a] # vMin0[a]

\* C9: calibrate() returns to the main loop only on a sample of the button
\* that found it released, and after a commit it stays in the wait loop as
\* long as the button is sampled pressed.
C9_ReturnsWithButtonReleased ==
    [][/\ (pc \in CalPcs /\ pc' = "loop") => SW_cal' = TRUE
       /\ (pc = "cal_wait" /\ SW_cal' = FALSE) => pc' = "cal_wait"]_vars

\* C9, witness: calibrate() has returned after a commit
C9_ReturnedAfterCommit ==
    /\ pc = "loop"
    /\ SW_cal = TRUE
    /\ ncal > 0
    /\ file = Record(zero, max)
    /\ file # cal0.file
    /\ serial = <<>>
    /\ LED_cal = 0

\* the recorded scans of a phase, in the order they were made
Scans(phase) == SelectSeq(hist, LAMBDA h : h.phase = phase)

\* C3: in every recorded main-loop scan and for every masked address, the key
\* goes from released to pressed only with output > thresh_h, from pressed to
\* released only with output < thresh_l, and keeps its state for an output in
\* [thresh_l, thresh_h]; with the thresholds (100, 128) of the code the
\* outputs 0, 150, 120, 90 give released, pressed, pressed, released.
C3_Hysteresis ==
    LET tr == Scans("loop")
        was(i, a) == IF i = 1 THEN 0 ELSE Bit(tr[i - 1].pressed, a)
        now(i, a) == Bit(tr[i].pressed, a)
        out(i, a) == tr[i].output[a]
    IN  /\ \A i \in 1 .. Len(tr) : \A a \in MaskedAddr :
            /\ (was(i, a) = 0 /\ now(i, a) = 1) => out(i, a) > thresh_h[a]
            /\ (was(i, a) = 1 /\ now(i, a) = 0) => out(i, a) < thresh_l[a]
            /\ (thresh_l[a] <= out(i, a) /\ out(i, a) <= thresh_h[a]) => now(i, a) = was(i, a)
        /\ \A a \in MaskedAddr :
            (/\ Len(tr) = 4
             /\ thresh_l[a] = 100 /\ thresh_h[a] = 128
             /\ [i \in 1 .. 4 |-> out(i, a)] = <<0, 150, 120, 90>>)
                => [i \in 1 .. 4 |-> now(i, a)] = <<0, 1, 1, 0>>

\* C3, witness: address 0 has gone through the outputs 0, 150, 120, 90
C3_ExampleRun ==
    /\ Len(hist) = 4
    /\ [i \in 1 .. 4 |-> hist[i].output[0]] = <<0, 150, 120, 90>>
    /\ pressed = 0

\* C10: once a calibration with at least one resting and one pressed scan is
\* committed, for every masked address max is the pressed-capture reading
\* farthest from the smallest resting reading (the first such reading on
\* ties), and zero is the smallest resting reading if max lies below it and
\* the largest resting reading otherwise; resting readings 100 and 110 with a
\* pressed reading of 40000 commit max = 40000 (and zero = 110).
C10_CommittedValues ==
    LET rest == Scans("rest")
        press == Scans("press")
        lo(a) == CHOOSE x \in {rest[i].readings[a] : i \in 1 .. Len(rest)} :
                    \A i \in 1 .. Len(rest) : x <= rest[i].readings[a]
        hi(a) == CHOOSE x \in {rest[i].readings[a] : i \in 1 .. Len(rest)} :
                    \A i \in 1 .. Len(rest) : x >= rest[i].readings[a]
        dist(i, a) == Abs(press[i].readings[a] - lo(a))
        far(a) == CHOOSE i \in 1 .. Len(press) :
                    \A j \in 1 .. Len(press) :
                        /\ dist(j, a) <= dist(i, a)
                        /\ j < i => dist(j, a) < dist(i, a)
    IN  (pc = "cal_wait" /\ Len(rest) > 0 /\ Len(press) > 0)
          => /\ file = Record(zero, max)
             /\ \A a \in MaskedAddr :
                 /\ max[a] = press[far(a)].readings[a]
                 /\ zero[a] = IF max[a] < lo(a) THEN lo(a) ELSE hi(a)
             /\ \A a \in MaskedAddr :
                 (/\ {rest[i].readings[a] : i \in 1 .. Len(rest)} = {100, 110}
                  /\ \E i \in 1 .. Len(press) : press[i].readings[a] = 40000)
                    => (max[a] = 40000 /\ zero[a] = 110)

\* C10, witness: a commit after resting readings 100 and 110 and a pressed
\* capture that reached 40000 on address 0
C10_ExampleCommitted ==
    /\ pc = "cal_wait"
    /\ {h.readings[0] : h \in {hist[i] : i \in {j \in 1 .. Len(hist) : hist[j].phase = "rest"}}} = {100, 110}
    /\ \E i \in 1 .. Len(hist) : hist[i].phase = "press" /\ hist[i].readings[0] = 40000
    /\ max[0] = 40000

\* the table entry of the positions that carry no key
Sentinel == 28

\* C11: the packet write() sends for a stroke has 6 bytes; data bit 6 - i of
\* byte c is set iff the stroke has the address at position i of row c of the
\* layout table, the positions holding the sentinel address set no bit, and
\* the stroke is recovered from the packet through the layout table (so two
\* strokes within the mask never give the same packet).
C11_PacketFollowsLayout ==
    pc = "written" =>
        LET p == serial[1].bytes
            named == {protocol[c][i + 1] : c \in 1 .. 6, i \in 0 .. 6}
            found == {a \in named \ {Sentinel} :
                        \E c \in 1 .. 6, i \in 0 .. 6 :
                            protocol[c][i + 1] = a /\ Bit(p[c], 6 - i) = 1}
        IN  /\ Len(p) = 6
            /\ \A c \in 1 .. 6, i \in 0 .. 6 :
                  Bit(p[c], 6 - i) = IF protocol[c][i + 1] = Sentinel THEN 0
                                     ELSE Bit(stroke, protocol[c][i + 1])
            /\ BitmapOf(found) = stroke

\* C11, witness: the stroke of addresses 0 and 8 has been written
C11_WroteSA ==
    /\ pc = "written"
    /\ stroke = BitmapOf({0, 8})
    /\ serial = <<Chord(<<128, 64, 32, 0, 0, 0>>)>>

\* MSB of byte 0 set, MSB of bytes 1..5 clear
Framed(p) ==
    /\ Len(p) = 6
    /\ p[1] \in 128 .. 255
    /\ \A c \in 2 .. 6 : p[c] \in 0 .. 127

\* C12: every packet sent by write(), for any stroke, and by fingerSpell(),
\* for any character (with an entry, without one, or uppercase), has 6 bytes
\* with the most-significant bit of byte 0 set and that of bytes 1..5 clear;
\* fingerSpell() sends exactly one packet per character of its argument.
C12_PacketsAreFramed ==
    /\ pc \in {"written", "spelled"} =>
          /\ \A k \in 1 .. Len(serial) : Framed(serial[k].bytes)
          /\ \A k \in 1 .. Len(serial) :
                serial[k].kind = IF pc = "written" THEN "chord" ELSE "spelled"
    /\ pc = "written" => Len(serial) = 1
    /\ pc = "spelled" => Len(serial) = Len(hist[1].text)

\* C12, witness: fingerSpell() has sent an uppercase letter and a character
\* without an entry
C12_SpelledShiftAndWildcard ==
    /\ pc = "spelled"
    /\ hist[1].text = <<"A", "?">>
    /\ serial = <<Spelled(<<128, 0, 44, 48, 64, 0>>), Spelled(<<128, 0, 12, 48, 0, 0>>)>>

\* C13 (as claimed): read() returns true iff the normalized value of at least
\* one masked address after the scan differs from its value after the
\* previous scan.
C13_ReturnsOutputChange ==
    exc = "none" => (ret <=> \E a \in MaskedAddr : output[a] # prev_output[a])

\* C14 (as claimed): no step changes readings, output or the pressed bit of an
\* address outside the mask, and a committed calibration leaves zero and max
\* of every such address as they were when calibrate() was entered.
C14_UnmaskedUntouched ==
    [][\A a \in Addr \ MaskedAddr :
        /\ readings'[a] = readings[a]
        /\ output'[a] = output[a]
        /\ Bit(pressed', a) = Bit(pressed, a)
        /\ pc' = "cal_wait" => (zero'[a] = cal0.zero[a] /\ max'[a] = cal0.max[a])]_vars

Defaults ==
    /\ zero = [a \in Addr |-> DefaultZero]
    /\ max = [a \in Addr |-> DefaultMax]

\* C15: at startup zero and max are the record of the file if there is one and
\* the factory values otherwise; they are assigned only by the commit of a
\* calibration, which has written the same pair to the file when it is done,
\* and by the factory reset, which removes the file and leaves the factory
\* values; whenever the main loop is about to scan, the file holds the record
\* (zero, max), or there is no file and zero and max are the factory values.
C15_RecordMatchesMemory ==
    [][/\ pc = "start" => (zero = LoadedZero(file) /\ max = LoadedMax(file))
       /\ (zero' # zero \/ max' # max)
            => (pc = "cal_apply" \/ (pc = "start" /\ pc' = "reset_wait"))
       /\ pc' = "cal_wait" => file' = Record(zero', max')
       /\ (pc = "start" /\ pc' = "reset_wait") => (file' = NoFile /\ Defaults')
       /\ file' # file => (pc \in {"cal_open", "cal_dump"} \/ (pc = "start" /\ pc' = "reset_wait"))
       /\ pc' = "loop" => (file' = Record(zero', max') \/ (file' = NoFile /\ Defaults'))]_vars

\* C15, witness: the program was started with a record on the flash and the
\* button held, and has entered the main loop
C15_ResetFromRecord ==
    /\ pc = "loop"
    /\ cal0.file = OldRecord
    /\ ncal = 0
    /\ file = NoFile
    /\ Defaults

\* C16 (as claimed): at every point where execution can be interrupted the
\* file is absent or holds a complete record, never an empty or partial one;
\* throughout the commit of a calibration it is the file found when
\* calibrate() was entered or the complete new record; and once the commit is
\* done the file holds the values zero and max were changed to.
C16_RecordWrittenAtomically ==
    /\ file.state \in {"absent", "record"}
    /\ pc \in {"cal_apply", "cal_open", "cal_dump", "cal_wait"}
         => file \in {cal0.file, Record(zero_l, vPressed)}
    /\ pc = "cal_wait" => file = Record(zero, max)

\* C17: when a main-loop cycle (scan and stroke update, button not pressed)
\* follows a main-loop cycle and reads the same raw values on every masked
\* address, it leaves pressed and stroke as the first cycle left them and
\* sends no packet.
C17_SecondCycleChangesNothing ==
    [][(/\ Len(hist) >= 1
        /\ Len(hist') = Len(hist) + 1
        /\ \A a \in MaskedAddr : readings'[a] = readings[a])
          => (pressed' = pressed /\ stroke' = stroke /\ serial' = <<>>)]_vars

\* C17, witness: a key was pressed, then released (the chord was sent), and a
\* further cycle has read the same values as the releasing one
C17_ReleasedTwice ==
    /\ Len(hist) = 3
    /\ [i \in 1 .. 3 |-> hist[i].output[0]] = <<150, 90, 90>>
    /\ hist[3].readings = hist[2].readings
    /\ pressed = 0
    /\ stroke = 0
    /\ serial = <<>>

\* C18 (as claimed): in a scan the value of analog input j taken while channel
\* c is selected is stored at address c + 4 * j, and the 32 pairs (c, j) cover
\* the 32 addresses, each exactly once.
C18_StoredAtChannelPlus4Input ==
    [][Len(hist') > Len(hist) =>
        LET hw == hist'[Len(hist')].hw
        IN  /\ \A c \in Mux, j \in Inputs : readings'[c + 4 * j] = hw[c][j]
            /\ \A a \in Addr :
                  Cardinality({p \in Mux \X Inputs : p[1] + 4 * p[2] = a}) = 1]_vars

\* C18 (amended): in a scan the value of analog input j taken while channel c
\* is selected is stored at address c + 8 * j if that address is in the mask
\* (the inputs of the other addresses are not read), and the 32 pairs (c, j)
\* have the 32 addresses 0..31, each exactly once.
C18_StoredAtChannelPlus8Input ==
    [][Len(hist') > Len(hist) =>
        LET hw == hist'[Len(hist')].hw
        IN  /\ \A c \in Mux, j \in Inputs :
                  /\ AddrOf(c, j) = c + 8 * j
                  /\ Masked(c + 8 * j) => readings'[c + 8 * j] = hw[c][j]
                  /\ ~Masked(c + 8 * j) => readings'[c + 8 * j] = readings[c + 8 * j]
            /\ \A a \in Addr :
                  Cardinality({p \in Mux \X Inputs : AddrOf(p[1], p[2]) = a}) = 1]_vars

\* C18, witness: one scan of the inputs 33000 + 100 * (4 * c + j) has stored
\* the value of channel 3, input 3 at address 27 and nothing at address 5
C18_ScannedPattern ==
    /\ Len(hist) = 1
    /\ hist[1].hw = Pattern(33000, 100)
    /\ readings[27] = 34500
    /\ readings[5] = 0

\* C19 (as claimed): whenever the main loop sends a chord packet the stroke it
\* encodes is not empty, also in runs where calibrate() scans while keys are
\* pressed or released.
C19_NoEmptyChord ==
    [][ChordsOf(serial') # {} => stroke # 0]_vars

\* C20: in every reachable state pressed, prev_pressed and stroke have no bit
\* of an address outside self.mask; in particular bit 28, the sentinel of the
\* layout table, is never set in the stroke.
C20_BitmapsWithinMask ==
    /\ \A a \in Addr :
         Bit(mask, a) = 0
           => (Bit(pressed, a) = 0 /\ Bit(prev_pressed, a) = 0 /\ Bit(stroke, a) = 0)
    /\ Bit(stroke, Sentinel) = 0

\* C20, witness: every ADC delivered a pressed value, the addresses outside
\* the mask included, and the main loop has taken the keys into the stroke
C20_AllKeysDown ==
    /\ pc = "loop"
    /\ pressed = mask
    /\ stroke = mask
    /\ \A a \in MaskedAddr : readings[a] = 55000

====
